---- MODULE Spec2Model ----
(***************************************************************************)
(* A model of c-learning/hash-table/hash-table.c: a fixed-size, separate-  *)
(* chaining hash table from C strings to C strings.                        *)
(*                                                                         *)
(* The heap is a finite array of blocks; a block is free, a node           *)
(* (key pointer, value pointer, next pointer) or a string (its bytes).     *)
(* Pointers are block addresses, NULL is 0.  A C string is the sequence of *)
(* its bytes before the terminating NUL.                                   *)
(***************************************************************************)
EXTENDS Integers, Sequences, FiniteSets, TLC

\* ------------------------------------------------------------ constants

TABLE_SIZE == 11

NULL == 0

\* What a call of a void function hands back to its caller: nothing.
VOID == -1

\* The seed of the accumulator in hash.
HASH_SEED == 5381

\* ------------------------------------------------------------ bounds

\* Heap blocks: three per entry (node, key copy, value copy); main needs 15.
MaxBlocks == 15

\* The values callers insert are the one-byte strings <<65>> .. <<64+NumValues>>.
NumValues == 2

\* Keys of the hash-only specification: every byte string over HashBytes of
\* length at most MaxKeyLen, and the keys of main.
MaxKeyLen == 4

\* Capacities of the hash-only specification: 1 .. MaxCapacity.
MaxCapacity == 12

\* Allocations that fail in one run of a specification with failures.
MaxFailures == 1

\* ------------------------------------------------------------ keys of main

Charlie   == <<67, 104, 97, 114, 108, 105, 101>>
Mac       == <<77, 97, 99>>
Dee       == <<68, 101, 101>>
Dennis    == <<68, 101, 110, 110, 105, 115>>
Frank     == <<70, 114, 97, 110, 107>>
Agamemnon == <<65, 103, 97, 109, 101, 109, 110, 111, 110>>

\* ------------------------------------------------------------ the build
\* The C implementation fixes two things the source leaves open: the width of
\* unsigned long (32 bits on ILP32 and LLP64, 64 bits on LP64) and whether a
\* plain char is signed.

Builds == [longBits : {32, 64}, charSigned : BOOLEAN]

LP64 == [longBits |-> 64, charSigned |-> TRUE]

\* ------------------------------------------------------------ unsigned long
\* An unsigned long is a little-endian sequence of 16-bit limbs, so that no
\* intermediate result leaves the range of TLC's 32-bit integers.

LimbBase == 256 * 256

NumLimbs(b) == b.longBits \div 16

\* (unsigned long) n, for an int n of small magnitude: a negative n wraps to
\* 2^longBits + n.
ToULong(b, n) ==
    [i \in 1..NumLimbs(b) |->
        IF n >= 0 THEN (IF i = 1 THEN n ELSE 0)
                  ELSE (IF i = 1 THEN LimbBase + n ELSE LimbBase - 1)]

\* x << 5: the bits shifted out at the top are lost.
RECURSIVE ShlCarry(_, _, _, _)
ShlCarry(x, i, carry, acc) ==
    IF i > Len(x) THEN acc
    ELSE LET t == x[i] * 32 + carry
         IN  ShlCarry(x, i + 1, t \div LimbBase, Append(acc, t % LimbBase))

Shl5(x) == ShlCarry(x, 1, 0, <<>>)

\* x + y, modulo 2^longBits.
RECURSIVE AddCarry(_, _, _, _, _)
AddCarry(x, y, i, carry, acc) ==
    IF i > Len(x) THEN acc
    ELSE LET t == x[i] + y[i] + carry
         IN  AddCarry(x, y, i + 1, t \div LimbBase, Append(acc, t % LimbBase))

ULongAdd(x, y) == AddCarry(x, y, 1, 0, <<>>)

\* x % m for 0 < m < 2^15, from the most significant limb down.
RECURSIVE ModFold(_, _, _, _)
ModFold(x, i, m, r) ==
    IF i = 0 THEN r
    ELSE ModFold(x, i - 1, m, (r * LimbBase + x[i]) % m)

ULongMod(x, m) == ModFold(x, Len(x), m, 0)

\* c = *word++ : the byte as an int, sign-extended where char is signed.
CharToInt(b, byte) == IF b.charSigned /\ byte >= 128 THEN byte - 256 ELSE byte

\* ------------------------------------------------------------ hash

\* The loop of hash without "+ hash": hash = (hash << 5) + c.
RECURSIVE HashLoop_Times32(_, _, _, _)
HashLoop_Times32(b, word, i, h) ==
    IF i > Len(word) \/ Len(h) # NumLimbs(b) THEN h
    ELSE HashLoop_Times32(b, word, i + 1,
                          ULongAdd(Shl5(h), ToULong(b, CharToInt(b, word[i]))))

\* The while loop of hash: hash = ((hash << 5) + hash) + c for each char.
RECURSIVE HashLoop(_, _, _, _)
HashLoop(b, word, i, h) ==
    IF i > Len(word) \/ Len(h) # NumLimbs(b) THEN h
    ELSE HashLoop(b, word, i + 1,
                  ULongAdd(ULongAdd(Shl5(h), h), ToULong(b, CharToInt(b, word[i]))))

hash(b, word, table_size) ==
    ULongMod(HashLoop(b, word, 1, ToULong(b, HASH_SEED)), table_size)

\* A further key of bucket 2, so that a chain has a head, a middle and a tail.
Joe == <<74, 111, 101>>

\* The keys the table is called with: those of an arbitrary caller and those
\* of main.
Keys == {Charlie, Dee, Joe, Mac}

MainKeys == {Charlie, Mac, Dee, Dennis, Frank, Agamemnon}

\* hash(key, TABLE_SIZE) of every key in use, computed once per build.
IndexTable ==
    [b \in Builds |-> [key \in Keys \cup MainKeys |-> hash(b, key, TABLE_SIZE)]]

\* unsigned int index = hash(key, TABLE_SIZE);
Index(b, key) == IndexTable[b][key]

\* ------------------------------------------------------------ state

VARIABLES
    build,     \* the C implementation the program was built for
    ht,        \* main's hash_table *ht: "null", "live", "freed" or "crashed"
    buckets,   \* ht->buckets, while the table is live
    mem,       \* the heap: nodes and strings
    io,        \* the last call: its arguments, what it returned and printed
    hist,      \* history of the calls (ghost)
    pc,        \* the statement of main to run next (0: the caller is not main)
    hq,        \* a call of hash on its own: word, table_size, result
    result     \* the caller's char *result: the pointer it keeps from get

vars == <<build, ht, buckets, mem, io, hist, pc, hq, result>>

Addrs == 1..MaxBlocks

Slots == 0..(TABLE_SIZE - 1)

\* The address of the hash_table struct itself, outside the node heap.
TableAddr == MaxBlocks + 1

FreeBlock == [kind |-> "free", key |-> NULL, value |-> NULL, next |-> NULL, str |-> <<>>]

NodeBlock(k, v, n) == [kind |-> "node", key |-> k, value |-> v, next |-> n, str |-> <<>>]

StrBlock(s) == [kind |-> "str", key |-> NULL, value |-> NULL, next |-> NULL, str |-> s]

EmptyBuckets == [i \in Slots |-> NULL]

EmptyHeap == [a \in Addrs |-> FreeBlock]

\* ------------------------------------------------------------ libc

FreeAddrs(m) == {a \in Addrs : m[a].kind = "free"}

\* malloc: the lowest free block, or NULL when the request fails (the heap is
\* exhausted, or the caller's failed flag says the system refused).
RECURSIVE FirstFree(_, _)
FirstFree(m, a) ==
    IF a > MaxBlocks THEN NULL
    ELSE IF m[a].kind = "free" THEN a
    ELSE FirstFree(m, a + 1)

Malloc(m, failed) == IF failed THEN NULL ELSE FirstFree(m, 1)

\* free(p): free(NULL) does nothing.
Free(m, p) == IF p = NULL THEN m ELSE [m EXCEPT ![p] = FreeBlock]

\* strdup(s) stores a copy of s in a new block; <<pointer, heap>>.
Strdup(m, s, failed) ==
    LET a == Malloc(m, failed)
    IN  IF a = NULL THEN <<NULL, m>> ELSE <<a, [m EXCEPT ![a] = StrBlock(s)]>>

\* strcmp(p, s) == 0, for a stored string p that is not NULL.
StrEq(m, p, s) == p # NULL /\ m[p].str = s

\* ------------------------------------------------------------ chains

\* The nodes met following next from p, in order.  The fuel stops the walk
\* of a chain that never reaches NULL.
RECURSIVE Chain(_, _, _)
Chain(m, p, fuel) ==
    IF p = NULL \/ fuel = 0 THEN <<>>
    ELSE <<p>> \o Chain(m, m[p].next, fuel - 1)

ChainOf(m, b, i) == Chain(m, b[i], MaxBlocks)

\* The loop of insert and of get: the first node of the chain whose key
\* compares equal, or NULL.
RECURSIVE Scan(_, _, _, _)
Scan(m, p, key, fuel) ==
    IF p = NULL \/ fuel = 0 THEN NULL
    ELSE IF StrEq(m, m[p].key, key) THEN p
    ELSE Scan(m, m[p].next, key, fuel - 1)

\* The loop of delete: <<ptr, prev, steps>> where it stops; ptr is NULL when
\* the chain ends without a match.
RECURSIVE ScanPrev(_, _, _, _, _, _)
ScanPrev(m, ptr, prev, key, n, fuel) ==
    IF ptr = NULL \/ fuel = 0 THEN <<NULL, prev, 0>>
    ELSE IF StrEq(m, m[ptr].key, key) THEN <<ptr, prev, n>>
    ELSE ScanPrev(m, m[ptr].next, ptr, key, n + 1, fuel - 1)

\* The scan passes a node whose key is NULL to strcmp before it stops:
\* undefined behaviour.
RECURSIVE ScanDerefsNull(_, _, _, _)
ScanDerefsNull(m, p, key, fuel) ==
    IF p = NULL \/ fuel = 0 THEN FALSE
    ELSE IF m[p].key = NULL THEN TRUE
    ELSE IF m[m[p].key].str = key THEN FALSE
    ELSE ScanDerefsNull(m, m[p].next, key, fuel - 1)

\* ------------------------------------------------------------ addresses
\* Which free block malloc returns is not specified, and no operation looks
\* at the number an address is.  Two heaps that differ by a renaming of the
\* addresses are therefore the same state; each is kept in the form in which
\* the blocks are numbered in the order print_table meets them (node, key,
\* value), then the allocated blocks no chain reaches, then the free ones.

\* The blocks of the nodes of a chain, in order.
RECURSIVE ChainBlocks(_, _)
ChainBlocks(m, c) ==
    IF c = <<>> THEN <<>>
    ELSE LET n == Head(c)
         IN  <<n>> \o (IF m[n].key = NULL THEN <<>> ELSE <<m[n].key>>)
                  \o (IF m[n].value = NULL THEN <<>> ELSE <<m[n].value>>)
                  \o ChainBlocks(m, Tail(c))

RECURSIVE ReachedFrom(_, _, _)
ReachedFrom(b, m, i) ==
    IF i >= TABLE_SIZE THEN <<>>
    ELSE ChainBlocks(m, ChainOf(m, b, i)) \o ReachedFrom(b, m, i + 1)

\* The addresses of S in ascending order, from a on.
RECURSIVE Ascending(_, _)
Ascending(S, a) ==
    IF a > MaxBlocks THEN <<>>
    ELSE (IF a \in S THEN <<a>> ELSE <<>>) \o Ascending(S, a + 1)

\* The blocks in their new order: the block at place n gets address n.
NewOrder(b, m) ==
    LET seq     == ReachedFrom(b, m, 0)
        reached == {seq[i] : i \in 1..Len(seq)}
    IN  seq \o Ascending({a \in Addrs \ reached : m[a].kind # "free"}, 1)
            \o Ascending({a \in Addrs \ reached : m[a].kind = "free"}, 1)

Renamed(r, p) == IF p = NULL THEN NULL ELSE r[p]

\* <<buckets, mem>> with its addresses renamed.
Canonical(b, m) ==
    LET order == NewOrder(b, m)
        r     == [a \in Addrs |-> CHOOSE n \in 1..Len(order) : order[n] = a]
    IN  <<[i \in Slots |-> Renamed(r, b[i])],
          [n \in Addrs |->
              LET old == m[order[n]]
              IN  [kind |-> old.kind, key |-> Renamed(r, old.key),
                   value |-> Renamed(r, old.value),
                   next |-> Renamed(r, old.next), str |-> old.str]]>>

\* What printf("%s") shows for a string pointer; glibc prints (null) for NULL.
NullText == <<40, 110, 117, 108, 108, 41>>

Text(m, p) == IF p = NULL THEN NullText ELSE m[p].str

\* ------------------------------------------------------------ calls

NoKey == <<>>

\* A call as its caller sees it: the arguments, the result, the line printed
\* (msg) and the lines of print_table (dump).  pos and old are ghosts: the
\* place in its chain of the node the call matched (1: the head, 0: none)
\* and, for an insert that updates, the value it replaced.
Call(op, key, value, ret, msg) ==
    [op |-> op, key |-> key, value |-> value, ret |-> ret, msg |-> msg,
     dump |-> <<>>, pos |-> 0, old |-> <<>>, stale |-> FALSE]

\* The place of node n in the chain from p, 0 when it is not there.
PlaceOf(m, p, n) ==
    LET c == Chain(m, p, MaxBlocks)
    IN  IF \E i \in 1..Len(c) : c[i] = n
        THEN CHOOSE i \in 1..Len(c) : c[i] = n
        ELSE 0

NoCall == Call("none", NoKey, NoKey, VOID, "")

\* live: the keys inserted and not deleted since; fails: the allocations that
\* failed; inserted, deleted: the keys ever inserted, ever deleted (kept when
\* track).
NoHist == [live |-> {}, inserted |-> {}, deleted |-> {}, fails |-> 0,
           track |-> FALSE]

NoHash == [word |-> <<>>, table_size |-> 1, ret |-> 0, done |-> FALSE]

\* ------------------------------------------------------------ the caller's pointer
\* get returns cursor->value itself, not a copy.  A caller that keeps it
\* holds the address of a block of the table; freed is a ghost: the block
\* has been freed since (the pointer's value is then indeterminate).

NoResult == [ptr |-> NULL, freed |-> FALSE]

Kept(p) == [ptr |-> p, freed |-> FALSE]

Stale == [ptr |-> NULL, freed |-> TRUE]

\* The blocks insert frees: free(current->value) on the update path.
InsertFrees(b, m, bld, key) ==
    LET current == Scan(m, b[Index(bld, key)], key, MaxBlocks)
    IN  IF current = NULL THEN {} ELSE {m[current].value} \ {NULL}

\* The blocks delete frees: ptr->key, ptr->value and ptr of the match.
DeleteFrees(b, m, bld, key) ==
    LET ptr == ScanPrev(m, b[Index(bld, key)], NULL, key, 1, MaxBlocks)[1]
    IN  IF ptr = NULL THEN {} ELSE {ptr, m[ptr].key, m[ptr].value} \ {NULL}

\* The blocks free_table frees: every node of every chain, its key, its value.
FreeTableFrees(b, m) ==
    LET seq == ReachedFrom(b, m, 0) IN {seq[i] : i \in 1..Len(seq)}

\* The caller's pointer after a call that freed the blocks of gone and left
\* <<b, m>>, whose addresses are then renumbered.
Held(res, gone, b, m) ==
    IF res.ptr = NULL THEN res
    ELSE IF res.ptr \in gone THEN Stale
    ELSE LET order == NewOrder(b, m)
         IN  Kept(CHOOSE n \in 1..Len(order) : order[n] = res.ptr)

\* ------------------------------------------------------------ create_table

\* hash_table *create_table(): `failed` says malloc returned NULL.
CreateTable(failed) ==
    /\ ht \in {"null", "freed"}
    /\ IF failed
       THEN /\ ht' = "null"
            /\ buckets' = buckets
            /\ io' = Call("create", NoKey, NoKey, NULL, "Memory allocation failed")
       ELSE /\ ht' = "live"
            /\ buckets' = EmptyBuckets
            /\ io' = Call("create", NoKey, NoKey, TableAddr, "")
    /\ hist' = [NoHist EXCEPT !.fails = hist.fails + (IF failed THEN 1 ELSE 0),
                              !.track = hist.track]
    /\ UNCHANGED mem

\* ------------------------------------------------------------ insert

\* insert with the update of an existing key left out: the old value stays.
InsertResult_KeepsOldValue(b, m, bld, key, value, fail) ==
    LET index   == Index(bld, key)
        current == Scan(m, b[index], key, MaxBlocks)
    IN  IF current # NULL
        THEN <<b, m, "", 0>>
        ELSE LET new_node == Malloc(m, FALSE)
                 m1 == [m EXCEPT ![new_node] = NodeBlock(NULL, NULL, NULL)]
                 dk == Strdup(m1, key, FALSE)
                 dv == Strdup(dk[2], value, FALSE)
             IN  <<[b EXCEPT ![index] = new_node],
                   [dv[2] EXCEPT ![new_node] = NodeBlock(dk[1], dv[1], b[index])],
                   "", 0>>

\* insert without the scan for an existing key: every call prepends a node.
InsertResult_NoScan(b, m, bld, key, value, fail) ==
    LET index    == Index(bld, key)
        new_node == Malloc(m, FALSE)
    IN  IF new_node = NULL
        THEN <<b, m, "Memory allocation failed", 1>>
        ELSE LET m1 == [m EXCEPT ![new_node] = NodeBlock(NULL, NULL, NULL)]
                 dk == Strdup(m1, key, FALSE)
                 dv == Strdup(dk[2], value, FALSE)
             IN  <<[b EXCEPT ![index] = new_node],
                   [dv[2] EXCEPT ![new_node] = NodeBlock(dk[1], dv[1], b[index])],
                   "", 0>>

\* insert that links a new node at the tail of the chain instead of the head.
InsertResult_Appends(b, m, bld, key, value, fail) ==
    LET index   == Index(bld, key)
        current == Scan(m, b[index], key, MaxBlocks)
        c       == Chain(m, b[index], MaxBlocks)
    IN  IF current # NULL
        THEN LET m1 == Free(m, m[current].value)
                 d  == Strdup(m1, value, "value" \in fail)
             IN  <<b, [d[2] EXCEPT ![current].value = d[1]], "",
                   IF d[1] = NULL THEN 1 ELSE 0>>
        ELSE LET new_node == Malloc(m, "node" \in fail)
             IN  IF new_node = NULL
                 THEN <<b, m, "Memory allocation failed", 1>>
                 ELSE LET m1 == [m EXCEPT ![new_node] = NodeBlock(NULL, NULL, NULL)]
                          dk == Strdup(m1, key, "key" \in fail)
                          dv == Strdup(dk[2], value, "value" \in fail)
                          m2 == [dv[2] EXCEPT ![new_node] = NodeBlock(dk[1], dv[1], NULL)]
                      IN  <<IF c = <<>> THEN [b EXCEPT ![index] = new_node] ELSE b,
                            IF c = <<>> THEN m2
                            ELSE [m2 EXCEPT ![c[Len(c)]].next = new_node],
                            "",
                            (IF dk[1] = NULL THEN 1 ELSE 0)
                                + (IF dv[1] = NULL THEN 1 ELSE 0)>>

\* insert whose update moves the node it found to the head of its chain.
InsertResult_MovesToFront(b, m, bld, key, value, fail) ==
    LET index   == Index(bld, key)
        current == Scan(m, b[index], key, MaxBlocks)
        s       == ScanPrev(m, b[index], NULL, key, 1, MaxBlocks)
    IN  IF current # NULL
        THEN LET m1 == Free(m, m[current].value)
                 d  == Strdup(m1, value, "value" \in fail)
                 m2 == [d[2] EXCEPT ![current].value = d[1]]
             IN  IF s[2] = NULL
                 THEN <<b, m2, "", IF d[1] = NULL THEN 1 ELSE 0>>
                 ELSE <<[b EXCEPT ![index] = current],
                        [m2 EXCEPT ![s[2]].next = m2[current].next,
                                   ![current].next = b[index]],
                        "", IF d[1] = NULL THEN 1 ELSE 0>>
        ELSE LET new_node == Malloc(m, "node" \in fail)
             IN  IF new_node = NULL
                 THEN <<b, m, "Memory allocation failed", 1>>
                 ELSE LET m1 == [m EXCEPT ![new_node] = NodeBlock(NULL, NULL, NULL)]
                          dk == Strdup(m1, key, "key" \in fail)
                          dv == Strdup(dk[2], value, "value" \in fail)
                      IN  <<[b EXCEPT ![index] = new_node],
                            [dv[2] EXCEPT ![new_node] =
                                 NodeBlock(dk[1], dv[1], b[index])],
                            "",
                            (IF dk[1] = NULL THEN 1 ELSE 0)
                                + (IF dv[1] = NULL THEN 1 ELSE 0)>>

\* insert that links a new node into the slot after the one hash gave.
InsertResult_NextSlot(b, m, bld, key, value, fail) ==
    LET index   == Index(bld, key)
        other   == (index + 1) % TABLE_SIZE
        current == Scan(m, b[index], key, MaxBlocks)
    IN  IF current # NULL
        THEN LET m1 == Free(m, m[current].value)
                 d  == Strdup(m1, value, "value" \in fail)
             IN  <<b, [d[2] EXCEPT ![current].value = d[1]], "",
                   IF d[1] = NULL THEN 1 ELSE 0>>
        ELSE LET new_node == Malloc(m, "node" \in fail)
             IN  IF new_node = NULL
                 THEN <<b, m, "Memory allocation failed", 1>>
                 ELSE LET m1 == [m EXCEPT ![new_node] = NodeBlock(NULL, NULL, NULL)]
                          dk == Strdup(m1, key, "key" \in fail)
                          dv == Strdup(dk[2], value, "value" \in fail)
                      IN  <<[b EXCEPT ![other] = new_node],
                            [dv[2] EXCEPT ![new_node] =
                                 NodeBlock(dk[1], dv[1], b[other])],
                            "",
                            (IF dk[1] = NULL THEN 1 ELSE 0)
                                + (IF dv[1] = NULL THEN 1 ELSE 0)>>

\* insert with lines 115 and 116 exchanged: the head is set before the new
\* node's next is read from it, so the node links to itself.
InsertResult_HeadFirst(b, m, bld, key, value, fail) ==
    LET index   == Index(bld, key)
        current == Scan(m, b[index], key, MaxBlocks)
    IN  IF current # NULL
        THEN LET m1 == Free(m, m[current].value)
                 d  == Strdup(m1, value, "value" \in fail)
             IN  <<b, [d[2] EXCEPT ![current].value = d[1]], "",
                   IF d[1] = NULL THEN 1 ELSE 0>>
        ELSE LET new_node == Malloc(m, "node" \in fail)
             IN  IF new_node = NULL
                 THEN <<b, m, "Memory allocation failed", 1>>
                 ELSE LET m1 == [m EXCEPT ![new_node] = NodeBlock(NULL, NULL, NULL)]
                          dk == Strdup(m1, key, "key" \in fail)
                          dv == Strdup(dk[2], value, "value" \in fail)
                      IN  <<[b EXCEPT ![index] = new_node],
                            [dv[2] EXCEPT ![new_node] =
                                 NodeBlock(dk[1], dv[1], new_node)],
                            "",
                            (IF dk[1] = NULL THEN 1 ELSE 0)
                                + (IF dv[1] = NULL THEN 1 ELSE 0)>>

\* The heap and the buckets insert leaves, what it prints and how many of its
\* allocations failed: <<buckets, mem, msg, fails>>.
\* `fail` names the allocations the system refuses: "node", "key", "value".
InsertResult(b, m, bld, key, value, fail) ==
    LET index   == Index(bld, key)
        current == Scan(m, b[index], key, MaxBlocks)
    IN  IF current # NULL
        THEN \* the key exists: free the old value, store a copy of the new
             LET m1 == Free(m, m[current].value)
                 d  == Strdup(m1, value, "value" \in fail)
             IN  <<b, [d[2] EXCEPT ![current].value = d[1]], "",
                   IF d[1] = NULL THEN 1 ELSE 0>>
        ELSE LET new_node == Malloc(m, "node" \in fail)
             IN  IF new_node = NULL
                 THEN <<b, m, "Memory allocation failed", 1>>
                 ELSE LET m1 == [m EXCEPT ![new_node] = NodeBlock(NULL, NULL, NULL)]
                          dk == Strdup(m1, key, "key" \in fail)
                          dv == Strdup(dk[2], value, "value" \in fail)
                      IN  <<[b EXCEPT ![index] = new_node],
                            [dv[2] EXCEPT ![new_node] =
                                 NodeBlock(dk[1], dv[1], b[index])],
                            "",
                            (IF dk[1] = NULL THEN 1 ELSE 0)
                                + (IF dv[1] = NULL THEN 1 ELSE 0)>>

\* void insert(hash_table *ht, const char *key, const char *value)
InsertOp(key, value, fail) ==
    /\ ht = "live"
    /\ ~ScanDerefsNull(mem, buckets[Index(build, key)], key, MaxBlocks)
    /\ LET r == InsertResult(buckets, mem, build, key, value, fail)
           c == Canonical(r[1], r[2])
       IN  /\ buckets' = c[1]
           /\ mem' = c[2]
           /\ io' = LET head    == buckets[Index(build, key)]
                        current == Scan(mem, head, key, MaxBlocks)
                    IN  [Call("insert", key, value, VOID, r[3]) EXCEPT
                            !.pos = PlaceOf(mem, head, current),
                            !.old = IF current = NULL \/ mem[current].value = NULL
                                    THEN <<>>
                                    ELSE <<mem[mem[current].value].str>>]
           /\ hist' = IF r[4] > 0 THEN [hist EXCEPT !.fails = @ + r[4]]
                      ELSE [hist EXCEPT !.live = @ \cup {key},
                                        !.inserted = IF hist.track THEN @ \cup {key} ELSE @]
    /\ UNCHANGED ht

\* ------------------------------------------------------------ get

\* The pointer get returns: the stored value of the first match, or NULL.
GetResult(b, m, bld, key) ==
    LET index  == Index(bld, key)
        cursor == Scan(m, b[index], key, MaxBlocks)
    IN  IF cursor # NULL THEN m[cursor].value ELSE NULL

\* char *get(hash_table *ht, const char *key)
GetOp(key) ==
    /\ ht = "live"
    /\ ~ScanDerefsNull(mem, buckets[Index(build, key)], key, MaxBlocks)
    /\ io' = Call("get", key, NoKey, GetResult(buckets, mem, build, key), "")
    /\ UNCHANGED <<ht, buckets, mem, hist>>

\* ------------------------------------------------------------ delete

\* delete that bypasses a node by ending the chain at its predecessor.
DeleteResult_CutsTail(b, m, bld, key) ==
    LET index == Index(bld, key)
    IN  IF b[index] = NULL
        THEN <<b, m, "No nodes to delete", 0>>
        ELSE LET s    == ScanPrev(m, b[index], NULL, key, 1, MaxBlocks)
                 ptr  == s[1]
                 prev == s[2]
             IN  IF ptr = NULL
                 THEN <<b, m, "Key not found", 0>>
                 ELSE LET b1 == IF prev = NULL
                                THEN [b EXCEPT ![index] = m[ptr].next]
                                ELSE b
                          m1 == IF prev = NULL
                                THEN m
                                ELSE [m EXCEPT ![prev].next = NULL]
                          m2 == Free(m1, m1[ptr].key)
                          m3 == Free(m2, m2[ptr].value)
                          m4 == Free(m3, ptr)
                      IN  <<b1, m4, "Deleted key", s[3]>>

\* delete that unlinks the head of the chain when the key is not found.
DeleteResult_DropsHeadWhenAbsent(b, m, bld, key) ==
    LET index == Index(bld, key)
    IN  IF b[index] = NULL
        THEN <<b, m, "No nodes to delete", 0>>
        ELSE LET s    == ScanPrev(m, b[index], NULL, key, 1, MaxBlocks)
                 ptr  == IF s[1] = NULL THEN b[index] ELSE s[1]
                 prev == IF s[1] = NULL THEN NULL ELSE s[2]
                 b1   == IF prev = NULL
                         THEN [b EXCEPT ![index] = m[ptr].next]
                         ELSE b
                 m1   == IF prev = NULL
                         THEN m
                         ELSE [m EXCEPT ![prev].next = m[ptr].next]
                 m2   == Free(m1, m1[ptr].key)
                 m3   == Free(m2, m2[ptr].value)
                 m4   == Free(m3, ptr)
             IN  <<b1, m4, IF s[1] = NULL THEN "Key not found" ELSE "Deleted key", s[3]>>

\* delete that empties the slot when it removes the head of a chain.
DeleteResult_HeadDropsChain(b, m, bld, key) ==
    LET index == Index(bld, key)
    IN  IF b[index] = NULL
        THEN <<b, m, "No nodes to delete", 0>>
        ELSE LET s    == ScanPrev(m, b[index], NULL, key, 1, MaxBlocks)
                 ptr  == s[1]
                 prev == s[2]
             IN  IF ptr = NULL
                 THEN <<b, m, "Key not found", 0>>
                 ELSE LET b1 == IF prev = NULL
                                THEN [b EXCEPT ![index] = NULL]
                                ELSE b
                          m1 == IF prev = NULL
                                THEN m
                                ELSE [m EXCEPT ![prev].next = m[ptr].next]
                          m2 == Free(m1, m1[ptr].key)
                          m3 == Free(m2, m2[ptr].value)
                          m4 == Free(m3, ptr)
                      IN  <<b1, m4, "Deleted key", s[3]>>

\* The heap and the buckets delete leaves: <<buckets, mem, msg, pos>>; pos is
\* the place of the deleted node in its chain (1: the head), 0 when none.
DeleteResult(b, m, bld, key) ==
    LET index == Index(bld, key)
    IN  IF b[index] = NULL
        THEN <<b, m, "No nodes to delete", 0>>
        ELSE LET s    == ScanPrev(m, b[index], NULL, key, 1, MaxBlocks)
                 ptr  == s[1]
                 prev == s[2]
             IN  IF ptr = NULL
                 THEN <<b, m, "Key not found", 0>>
                 ELSE LET b1 == IF prev = NULL
                                THEN [b EXCEPT ![index] = m[ptr].next]
                                ELSE b
                          m1 == IF prev = NULL
                                THEN m
                                ELSE [m EXCEPT ![prev].next = m[ptr].next]
                          m2 == Free(m1, m1[ptr].key)
                          m3 == Free(m2, m2[ptr].value)
                          m4 == Free(m3, ptr)
                      IN  <<b1, m4, "Deleted key", s[3]>>

\* void delete(hash_table *ht, const char *key)
DeleteOp(key) ==
    /\ ht = "live"
    /\ ~ScanDerefsNull(mem, buckets[Index(build, key)], key, MaxBlocks)
    /\ LET r == DeleteResult(buckets, mem, build, key)
           c == Canonical(r[1], r[2])
       IN  /\ buckets' = c[1]
           /\ mem' = c[2]
           /\ io' = [Call("delete", key, NoKey, VOID, r[3]) EXCEPT !.pos = r[4]]
           /\ hist' = IF r[3] = "Deleted key"
                      THEN [hist EXCEPT !.live = @ \ {key},
                                        !.deleted = IF hist.track THEN @ \cup {key} ELSE @]
                      ELSE hist
    /\ UNCHANGED ht

\* ------------------------------------------------------------ print_table

\* print_table that walks each chain from the tail to the head.
PrintLine_Reversed(b, m, i) ==
    LET c == ChainOf(m, b, i)
    IN  [j \in 1..Len(c) |-> <<Text(m, m[c[Len(c) + 1 - j]].key),
                               Text(m, m[c[Len(c) + 1 - j]].value)>>]

\* The line print_table prints for slot i: the (key, value) pairs of its
\* chain from the head to NULL.
PrintLine(b, m, i) ==
    LET c == ChainOf(m, b, i)
    IN  [j \in 1..Len(c) |-> <<Text(m, m[c[j]].key), Text(m, m[c[j]].value)>>]

\* The lines of print_table, for i = 0 .. TABLE_SIZE - 1 in this order.
RECURSIVE PrintLines(_, _, _)
PrintLines(b, m, i) ==
    IF i >= TABLE_SIZE THEN <<>>
    ELSE <<PrintLine(b, m, i)>> \o PrintLines(b, m, i + 1)

PrintResult(b, m) == PrintLines(b, m, 0)

\* print_table hands a NULL key or value to printf("%s"): undefined behaviour.
PrintsNull(b, m) ==
    \E i \in Slots : \E j \in 1..Len(ChainOf(m, b, i)) :
        LET n == ChainOf(m, b, i)[j] IN m[n].key = NULL \/ m[n].value = NULL

\* void print_table(hash_table *ht)
PrintTableOp ==
    /\ ht = "live"
    /\ io' = [Call("print", NoKey, NoKey, VOID, "") EXCEPT
                 !.dump = PrintResult(buckets, mem)]
    /\ UNCHANGED <<ht, buckets, mem, hist>>

\* ------------------------------------------------------------ free_table

\* free_table that frees each node and its key but not its value.
RECURSIVE FreeChain_KeepsValues(_, _, _)
FreeChain_KeepsValues(m, cursor, fuel) ==
    IF cursor = NULL \/ fuel = 0 THEN m
    ELSE LET temp == cursor
             nxt  == m[cursor].next
             m1   == Free(m, m[temp].key)
             m3   == Free(m1, temp)
         IN  FreeChain_KeepsValues(m3, nxt, fuel - 1)

\* The inner loop of free_table: every node of the chain from cursor, with its
\* key and its value, is freed.
RECURSIVE FreeChain(_, _, _)
FreeChain(m, cursor, fuel) ==
    IF cursor = NULL \/ fuel = 0 THEN m
    ELSE LET temp == cursor
             nxt  == m[cursor].next
             m1   == Free(m, m[temp].key)
             m2   == Free(m1, m1[temp].value)
             m3   == Free(m2, temp)
         IN  FreeChain(m3, nxt, fuel - 1)

\* The outer loop of free_table, from slot i on.
RECURSIVE FreeSlots(_, _, _)
FreeSlots(b, m, i) ==
    IF i >= TABLE_SIZE THEN m
    ELSE FreeSlots(b, FreeChain(m, b[i], MaxBlocks), i + 1)

FreeTableResult(b, m) == FreeSlots(b, m, 0)

\* void free_table(hash_table *ht)
FreeTableOp ==
    /\ ht = "live"
    /\ mem' = FreeTableResult(buckets, mem)
    /\ ht' = "freed"
    /\ buckets' = EmptyBuckets
    /\ io' = Call("free", NoKey, NoKey, VOID, "")
    /\ UNCHANGED hist

\* ------------------------------------------------------------ callers

\* The values an arbitrary caller inserts.
Values == {<<64 + i>> : i \in 1..NumValues}

\* The insert calls of an arbitrary caller.  Charlie and Dee, which collide,
\* are inserted with every value; Joe, which makes their chain one longer, and
\* Mac, which fills another slot, with one.
Inserts == {kv \in Keys \X Values : kv[1] \in {Charlie, Dee} \/ kv[2] = <<65>>}

\* Every build puts the keys of Keys in the same slots (IndexTable), and no
\* table operation depends on the build otherwise: the caller runs on LP64.
Init ==
    /\ build = LP64
    /\ ht = "null"
    /\ buckets = EmptyBuckets
    /\ mem = EmptyHeap
    /\ io = NoCall
    /\ hist = NoHist
    /\ pc = 0
    /\ hq = NoHash
    /\ result = NoResult

Create == CreateTable(FALSE) /\ UNCHANGED <<build, pc, hq, result>>

Insert(key, value) == InsertOp(key, value, {}) /\ UNCHANGED <<build, pc, hq, result>>

Get(key) == GetOp(key) /\ UNCHANGED <<build, pc, hq, result>>

Delete(key) == DeleteOp(key) /\ UNCHANGED <<build, pc, hq, result>>

PrintTable == PrintTableOp /\ UNCHANGED <<build, pc, hq, result>>

FreeTable == FreeTableOp /\ UNCHANGED <<build, pc, hq, result>>

Next ==
    \/ Create
    \/ \E kv \in Inserts : Insert(kv[1], kv[2])
    \/ \E key \in Keys : Get(key)
    \/ \E key \in Keys : Delete(key)
    \/ PrintTable
    \/ FreeTable

Spec == Init /\ [][Next]_vars

\* ------------------------------------------------------------ history
\* The same caller, with the keys ever inserted and ever deleted recorded.

HistKeys == {Charlie, Dee, Mac}

InitHist ==
    /\ build = LP64
    /\ ht = "null"
    /\ buckets = EmptyBuckets
    /\ mem = EmptyHeap
    /\ io = NoCall
    /\ hist = [NoHist EXCEPT !.track = TRUE]
    /\ pc = 0
    /\ hq = NoHash
    /\ result = NoResult

NextHist ==
    \/ Create
    \/ \E key \in HistKeys, value \in Values : Insert(key, value)
    \/ \E key \in HistKeys : Get(key)
    \/ \E key \in HistKeys : Delete(key)
    \/ PrintTable
    \/ FreeTable

SpecHist == InitHist /\ [][NextHist]_vars

\* ------------------------------------------------------------ out of memory
\* The same caller on a system where any allocation may fail.

Allocations == {"node", "key", "value"}

\* A call hands NULL to strcmp or to printf("%s"): the process is killed.
DerefsNull ==
    \/ \E key \in Keys \cup MainKeys :
           ScanDerefsNull(mem, buckets[Index(build, key)], key, MaxBlocks)
    \/ PrintsNull(buckets, mem)

CrashOp ==
    /\ ht = "live"
    /\ DerefsNull
    /\ ht' = "crashed"
    /\ io' = Call("abort", NoKey, NoKey, VOID, "")
    /\ UNCHANGED <<buckets, mem, hist>>

\* The sets of allocations that may fail in the next call.
MayFail == {f \in SUBSET Allocations : hist.fails + Cardinality(f) <= MaxFailures}

CreateOOM ==
    \E failed \in {f \in BOOLEAN : ~f \/ hist.fails < MaxFailures} :
        CreateTable(failed) /\ UNCHANGED <<build, pc, hq, result>>

InsertOOM(key, value) ==
    \E fail \in MayFail : InsertOp(key, value, fail) /\ UNCHANGED <<build, pc, hq, result>>

Crash == CrashOp /\ UNCHANGED <<build, pc, hq, result>>

NextOOM ==
    \/ CreateOOM
    \/ \E key \in HistKeys, value \in Values : InsertOOM(key, value)
    \/ \E key \in HistKeys : Get(key)
    \/ \E key \in HistKeys : Delete(key)
    \/ PrintTable
    \/ FreeTable
    \/ Crash

SpecOOM == Init /\ [][NextOOM]_vars

\* ------------------------------------------------------------ a caller that keeps result
\* The caller of Spec, keeping in result the pointer get returned, as main
\* does, and free to hand it back to insert as the value.

RefKeys == {Charlie, Dee, Mac}

RefGet(key) ==
    /\ GetOp(key)
    /\ result' = Kept(io'.ret)
    /\ UNCHANGED <<build, pc, hq>>

RefInsert(key, value) ==
    /\ InsertOp(key, value, {})
    /\ LET r == InsertResult(buckets, mem, build, key, value, {})
       IN  result' = Held(result, InsertFrees(buckets, mem, build, key), r[1], r[2])
    /\ UNCHANGED <<build, pc, hq>>

\* insert(ht, key, result).  When result is the value of key itself, line 97
\* frees the block and line 98 hands it to strdup, which reads freed storage:
\* undefined behaviour.  The copy may hold any string, or the process is
\* killed.
RefInsertHeld(key) ==
    /\ ht = "live"
    /\ result.ptr # NULL /\ ~result.freed
    /\ LET current == Scan(mem, buckets[Index(build, key)], key, MaxBlocks)
       IN  IF current = NULL \/ mem[current].value # result.ptr
           THEN RefInsert(key, mem[result.ptr].str)
           ELSE \/ \E read \in Values :
                     LET r == InsertResult(buckets, mem, build, key, read, {})
                         c == Canonical(r[1], r[2])
                     IN  /\ buckets' = c[1]
                         /\ mem' = c[2]
                         /\ io' = [Call("insert", key, read, VOID, r[3]) EXCEPT
                                      !.pos = PlaceOf(mem, buckets[Index(build, key)], current),
                                      !.old = <<mem[result.ptr].str>>,
                                      !.stale = TRUE]
                         /\ result' = Stale
                         /\ UNCHANGED <<build, ht, hist, pc, hq>>
                \/ /\ ht' = "crashed"
                   /\ io' = [Call("abort", NoKey, NoKey, VOID, "") EXCEPT !.stale = TRUE]
                   /\ result' = Stale
                   /\ UNCHANGED <<build, buckets, mem, hist, pc, hq>>

RefDelete(key) ==
    /\ DeleteOp(key)
    /\ LET r == DeleteResult(buckets, mem, build, key)
       IN  result' = Held(result, DeleteFrees(buckets, mem, build, key), r[1], r[2])
    /\ UNCHANGED <<build, pc, hq>>

RefFree ==
    /\ FreeTableOp
    /\ result' = Held(result, FreeTableFrees(buckets, mem), buckets, mem)
    /\ UNCHANGED <<build, pc, hq>>

NextRef ==
    \/ Create
    \/ \E key \in RefKeys, value \in Values : RefInsert(key, value)
    \/ \E key \in RefKeys : RefInsertHeld(key)
    \/ \E key \in RefKeys : RefGet(key)
    \/ \E key \in RefKeys : RefDelete(key)
    \/ PrintTable
    \/ RefFree

SpecRef == Init /\ [][NextRef]_vars

\* ------------------------------------------------------------ hash alone

HashBytes == {97, 122, 233}

RECURSIVE Words(_)
Words(n) ==
    IF n = 0 THEN {<<>>}
    ELSE Words(n - 1) \cup {Append(w, c) : w \in Words(n - 1), c \in HashBytes}

\* A word long enough for a 64-bit accumulator to wrap around.
LongWord == Agamemnon \o Agamemnon

\* The longest key a 64-bit accumulator takes without wrapping around, of the
\* largest ASCII byte.
TenBytes == [i \in 1..10 |-> 127]

HashWords == Words(MaxKeyLen) \cup MainKeys \cup {LongWord, TenBytes}

InitHash ==
    /\ build \in Builds
    /\ ht = "null"
    /\ buckets = EmptyBuckets
    /\ mem = EmptyHeap
    /\ io = NoCall
    /\ hist = NoHist
    /\ pc = 0
    /\ hq \in [word : HashWords, table_size : 1..MaxCapacity, ret : {0}, done : {FALSE}]
    /\ result = NoResult

HashCall ==
    /\ ~hq.done
    /\ hq' = [hq EXCEPT !.ret = hash(build, hq.word, hq.table_size), !.done = TRUE]
    /\ UNCHANGED <<build, ht, buckets, mem, io, hist, pc, result>>

NextHash == HashCall

SpecHash == InitHash /\ [][NextHash]_vars

\* ------------------------------------------------------------ main
\* The program itself: the statements of main in order, on any build, on a
\* system where an allocation may fail.  main checks no result of insert,
\* and keeps in result what get returned.

CharlieValue == <<40, 54, 51, 52, 41, 32, 52, 54, 54, 45, 49, 54, 51, 48>>
MacValue     == <<49, 45, 52, 51, 54, 45, 55, 48, 53, 45, 51, 54, 55, 51>>
DeeValue     == <<49, 45, 50, 49, 52, 45, 55, 49, 55, 45, 49, 56, 48, 56>>
DennisValue  == <<40, 52, 57, 49, 41, 32, 53, 56, 52, 45, 54, 48, 54, 53>>
FrankValue   == <<40, 54, 52, 49, 41, 32, 56, 52, 56, 45, 57, 55, 51, 56>>

\* The insert calls of main, statements 2 to 6.
MainInserts ==
    <<<<Charlie, CharlieValue>>, <<Mac, MacValue>>, <<Dee, DeeValue>>,
      <<Dennis, DennisValue>>, <<Frank, FrankValue>>>>

InitMain ==
    /\ build \in Builds
    /\ ht = "null"
    /\ buckets = EmptyBuckets
    /\ mem = EmptyHeap
    /\ io = NoCall
    /\ hist = NoHist
    /\ pc = 1
    /\ hq = NoHash
    /\ result = NoResult

Step == pc' = pc + 1 /\ UNCHANGED <<build, hq>>

\* hash_table *ht = create_table();
MainCreate ==
    /\ pc = 1
    /\ \E failed \in {f \in BOOLEAN : ~f \/ hist.fails < MaxFailures} : CreateTable(failed)
    /\ UNCHANGED result
    /\ Step

\* insert(ht, "Charlie", ...); ... insert(ht, "Frank", ...);
MainInsert ==
    /\ pc \in 2..6
    /\ \E fail \in MayFail : InsertOp(MainInserts[pc - 1][1], MainInserts[pc - 1][2], fail)
    /\ UNCHANGED result
    /\ Step

\* result = get(ht, "Agamemnon"); result = get(ht, "Dennis");
MainGet ==
    /\ pc \in 7..8
    /\ GetOp(IF pc = 7 THEN Agamemnon ELSE Dennis)
    /\ result' = Kept(io'.ret)
    /\ Step

\* print_table(ht);
MainPrint ==
    /\ pc \in {9, 12}
    /\ PrintTableOp
    /\ UNCHANGED result
    /\ Step

\* delete(ht, "Agamemnon"); delete(ht, "Dennis");
MainDelete ==
    /\ pc \in 10..11
    /\ DeleteOp(IF pc = 10 THEN Agamemnon ELSE Dennis)
    /\ LET key == IF pc = 10 THEN Agamemnon ELSE Dennis
           r   == DeleteResult(buckets, mem, build, key)
       IN  result' = Held(result, DeleteFrees(buckets, mem, build, key), r[1], r[2])
    /\ Step

\* free_table(ht); return 0;
MainFree ==
    /\ pc = 13
    /\ FreeTableOp
    /\ result' = Held(result, FreeTableFrees(buckets, mem), buckets, mem)
    /\ Step

\* The statement main is at dereferences NULL: ht itself after a failed
\* create_table, or a key or value a failed strdup left NULL.
MainCrash ==
    /\ pc \in 2..13
    /\ \/ ht = "null"
       \/ /\ ht = "live"
          /\ \/ pc \in 2..6 /\ ScanDerefsNull(mem, buckets[Index(build, MainInserts[pc - 1][1])],
                                              MainInserts[pc - 1][1], MaxBlocks)
             \/ pc \in {7, 10} /\ ScanDerefsNull(mem, buckets[Index(build, Agamemnon)],
                                                 Agamemnon, MaxBlocks)
             \/ pc \in {8, 11} /\ ScanDerefsNull(mem, buckets[Index(build, Dennis)],
                                                 Dennis, MaxBlocks)
             \/ pc \in {9, 12} /\ PrintsNull(buckets, mem)
    /\ ht' = "crashed"
    /\ io' = Call("abort", NoKey, NoKey, VOID, "")
    /\ UNCHANGED <<build, buckets, mem, hist, pc, hq, result>>

NextMain ==
    \/ MainCreate
    \/ MainInsert
    \/ MainGet
    \/ MainPrint
    \/ MainDelete
    \/ MainFree
    \/ MainCrash

SpecMain == InitMain /\ [][NextMain]_vars

\* ============================================================ properties

\* What the table holds, slot by slot: the (key, value) pairs of each chain in
\* chain order.
Content(b, m) == [i \in Slots |-> PrintLine(b, m, i)]

\* The places <<slot, place in the chain>> of the entries with key k.
PlacesOf(b, m, k) ==
    LET c == Content(b, m)
    IN  {e \in Slots \X (1..MaxBlocks) : e[2] <= Len(c[e[1]]) /\ c[e[1]][e[2]][1] = k}

KeyCount(b, m, k) == Cardinality(PlacesOf(b, m, k))

EntryCount(b, m) ==
    LET c == Content(b, m)
    IN  Cardinality({e \in Slots \X (1..MaxBlocks) : e[2] <= Len(c[e[1]])})

\* A chain's pairs without those of key k.
Without(line, k) == LET Keep(e) == e[1] # k IN SelectSeq(line, Keep)

\* The keys an enumeration of the table yields.
EnumKeys(b, m) ==
    LET d == PrintResult(b, m)
    IN  {d[i][j][1] : <<i, j>> \in {<<i, j>> \in (1..Len(d)) \X (1..MaxBlocks) : j <= Len(d[i])}}

\* The string get(key) would return in this state; <<>> for NULL.
Lookup(b, m, bld, key) ==
    LET p == GetResult(b, m, bld, key)
    IN  IF p = NULL THEN <<>> ELSE <<m[p].str>>

\* C1: round trip.  In the state insert(t, k, v) leaves, get(t, k) returns a
\* string equal to v, whether k was new or already there.
C1_RoundTrip ==
    io.op = "insert" => Lookup(buckets, mem, build, io.key) = <<io.value>>

\* C1 witness: an insert has just replaced a different value of a key in the
\* middle of a chain, and get finds the new one.
C1_Witness ==
    /\ io.op = "insert"
    /\ io.pos = 2
    /\ io.old # <<>> /\ io.old # <<io.value>>
    /\ Lookup(buckets, mem, build, io.key) = <<io.value>>

\* C2: uniqueness.  The whole table holds at most one entry per key, exactly
\* one for a key inserted and not deleted since, and after an insert that
\* repeats a key with another value get returns the value inserted last.
C2_Uniqueness ==
    ht = "live" =>
        /\ \A k \in Keys :
              /\ KeyCount(buckets, mem, k) <= 1
              /\ k \in hist.live => KeyCount(buckets, mem, k) = 1
        /\ (io.op = "insert" /\ io.old # <<>>) =>
              /\ KeyCount(buckets, mem, io.key) = 1
              /\ Lookup(buckets, mem, build, io.key) = <<io.value>>

\* C2 witness: a key was inserted again with another value; one entry holds it.
C2_Witness ==
    /\ ht = "live"
    /\ io.op = "insert"
    /\ io.old # <<>> /\ io.old # <<io.value>>
    /\ KeyCount(buckets, mem, io.key) = 1
    /\ Cardinality(hist.live) = 3

\* C3: successful delete.  A delete of a key that is present removes the one
\* entry with that key and no other, wherever it is in its chain: every chain
\* is the chain before without that key, the number of entries drops by one,
\* and get of the key returns NULL afterwards.
C3_DeleteRemovesOne ==
    [][(io'.op = "delete" /\ KeyCount(buckets, mem, io'.key) > 0) =>
          /\ io'.msg = "Deleted key"
          /\ LET before == Content(buckets, mem)
                 after  == Content(buckets', mem')
             IN  \A i \in Slots : after[i] = Without(before[i], io'.key)
          /\ EntryCount(buckets', mem') = EntryCount(buckets, mem) - 1
          /\ KeyCount(buckets', mem', io'.key) = 0
          /\ GetResult(buckets', mem', build', io'.key) = NULL]_vars

\* C3 witness: delete has removed the middle node of a chain of three.
C3_Witness ==
    /\ io.op = "delete"
    /\ io.msg = "Deleted key"
    /\ io.pos = 2
    /\ Len(Content(buckets, mem)[Index(build, io.key)]) = 2
    /\ GetResult(buckets, mem, build, io.key) = NULL

\* C4: delete of an absent key.  The call reports that nothing was deleted
\* ("No nodes to delete" for an empty bucket, "Key not found" otherwise) and
\* leaves the buckets and every block of the heap as they were.
C4_DeleteAbsentNoChange ==
    [][(io'.op = "delete" /\ KeyCount(buckets, mem, io'.key) = 0) =>
          /\ buckets' = buckets
          /\ mem' = mem
          /\ Content(buckets', mem') = Content(buckets, mem)
          /\ io'.msg = IF buckets[Index(build, io'.key)] = NULL
                       THEN "No nodes to delete"
                       ELSE "Key not found"]_vars

\* C4 witness: delete has looked for an absent key in a bucket of two other keys.
C4_Witness ==
    /\ io.op = "delete"
    /\ io.msg = "Key not found"
    /\ KeyCount(buckets, mem, io.key) = 0
    /\ Len(Content(buckets, mem)[Index(build, io.key)]) = 2

\* C5 as stated: the keys an enumeration yields are the keys ever inserted
\* minus the keys ever deleted.
C5_EnumIsInsertedMinusDeleted ==
    ht = "live" => EnumKeys(buckets, mem) = hist.inserted \ hist.deleted

\* C5 amended: the keys an enumeration yields are the keys inserted and not
\* deleted since their last insert; colliding keys are all kept.
C5_EnumIsLiveKeys ==
    ht = "live" => EnumKeys(buckets, mem) = hist.live

\* C5 witness: two colliding keys are enumerated, one of them inserted again
\* after it was deleted.
C5_Witness ==
    /\ ht = "live"
    /\ {Charlie, Dee} \subseteq EnumKeys(buckets, mem)
    /\ Charlie \in hist.deleted
    /\ EnumKeys(buckets, mem) = hist.live

\* The DJB2 reference: the accumulator starts at 5381 and becomes
\* accumulator * 33 + c for each byte c (0 .. 255) in order, modulo
\* 2^longBits; the result is the accumulator modulo the capacity.
RECURSIVE Mul33Carry(_, _, _, _)
Mul33Carry(x, i, carry, acc) ==
    IF i > Len(x) THEN acc
    ELSE LET t == x[i] * 33 + carry
         IN  Mul33Carry(x, i + 1, t \div LimbBase, Append(acc, t % LimbBase))

RECURSIVE Djb2Loop(_, _, _, _)
Djb2Loop(b, key, i, acc) ==
    IF i > Len(key) \/ Len(acc) # NumLimbs(b) THEN acc
    ELSE Djb2Loop(b, key, i + 1,
                  ULongAdd(Mul33Carry(acc, 1, 0, <<>>), ToULong(b, key[i])))

Djb2Reference(b, key, capacity) ==
    ULongMod(Djb2Loop(b, key, 1, ToULong(b, HASH_SEED)), capacity)

\* C6 as stated: on every build, for every key and every positive capacity,
\* hash returns the DJB2 reference, the result is in 0 .. capacity - 1, and
\* with capacity 11 Dennis hashes to 5, Mac to 0, Charlie to 2 and Dee to 2.
C6_HashContract ==
    hq.done =>
        /\ hq.ret = Djb2Reference(build, hq.word, hq.table_size)
        /\ hq.ret \in 0..(hq.table_size - 1)
        /\ hq.table_size = TABLE_SIZE =>
              /\ hq.word = Dennis  => hq.ret = 5
              /\ hq.word = Mac     => hq.ret = 0
              /\ hq.word = Charlie => hq.ret = 2
              /\ hq.word = Dee     => hq.ret = 2

\* The string get(key) would return in this state of main, as printf shows it.
MainLookup(key) == Lookup(buckets, mem, build, key)

NoPartialEntry(b, m) ==
    \A i \in Slots : \A j \in 1..Len(ChainOf(m, b, i)) :
        LET n == ChainOf(m, b, i)[j] IN m[n].key # NULL /\ m[n].value # NULL

\* C8 as stated: an insert in which an allocation fails leaves the table as
\* it was: the same chains with the same keys and values, no entry with a
\* missing key or value.
C8_InsertFailureAtomic ==
    [][(io'.op = "insert" /\ hist'.fails > hist.fails) =>
          /\ NoPartialEntry(buckets', mem')
          /\ \A i \in Slots :
                /\ Len(ChainOf(mem', buckets', i)) = Len(ChainOf(mem, buckets, i))
                /\ NoPartialEntry(buckets, mem) =>
                      PrintLine(buckets', mem', i) = PrintLine(buckets, mem, i)]_vars

\* The call failed: an allocation failed or the key was not found.
Failed(c) ==
    \/ c.msg \in {"Memory allocation failed", "No nodes to delete", "Key not found"}
    \/ c.op \in {"create", "get"} /\ c.ret = NULL

\* C9 as stated: of two successive calls of the same operation of which one
\* fails and the other succeeds, the results returned differ, so the caller
\* can tell failure from success by the result.
C9_ErrorsReturned ==
    [][(io.op \in {"create", "insert", "get", "delete"}
          /\ io'.op = io.op
          /\ Failed(io) # Failed(io')) => io'.ret # io.ret]_vars

\* The nodes print_table has to visit: slot by slot, each chain from its head.
RECURSIVE Visits(_, _, _)
Visits(b, m, i) ==
    IF i >= TABLE_SIZE THEN <<>>
    ELSE <<Chain(m, b[i], MaxBlocks)>> \o Visits(b, m, i + 1)

NodeBlocks(m) == {a \in Addrs : m[a].kind = "node"}

\* C10: enumeration.  print_table visits the slots 0 .. TABLE_SIZE - 1 in
\* this order and each chain from head to tail, shows every stored entry
\* exactly once, ends (every chain reaches NULL), leaves the table as it was,
\* and a second print_table right after the first shows the same.
C10_Enumeration ==
    [][io'.op = "print" =>
          LET v == Visits(buckets, mem, 0)
              shown == {<<i, j>> \in (1..TABLE_SIZE) \X (1..MaxBlocks) : j <= Len(v[i])}
          IN  /\ UNCHANGED <<ht, buckets, mem>>
              /\ Len(io'.dump) = TABLE_SIZE
              /\ \A i \in 1..TABLE_SIZE :
                    /\ Len(io'.dump[i]) = Len(v[i])
                    /\ \A j \in 1..Len(v[i]) :
                          io'.dump[i][j] = <<mem[mem[v[i][j]].key].str,
                                             mem[mem[v[i][j]].value].str>>
                    /\ v[i] # <<>> => mem[v[i][Len(v[i])]].next = NULL
              /\ {v[e[1]][e[2]] : e \in shown} = NodeBlocks(mem)
              /\ Cardinality(shown) = Cardinality(NodeBlocks(mem))
              /\ io.op = "print" => io'.dump = io.dump]_vars

\* C10 witness: print_table has shown a table with one entry in slot 0 and a
\* chain of three in slot 2.
C10_Witness ==
    /\ io.op = "print"
    /\ Len(io.dump) = TABLE_SIZE
    /\ Len(io.dump[1]) = 1
    /\ Len(io.dump[3]) = 3
    /\ io.dump[3][1][1] # io.dump[3][3][1]

\* C11: retry safety.  A call repeated right away with the same arguments
\* leaves the table as the first call left it: a second insert(k, v) keeps
\* every chain (entries and order) and one entry for k; a second delete(k)
\* changes nothing; a second get(k) returns what the first returned.
C11_RetrySafe ==
    [][(io.op \in {"insert", "delete", "get"}
          /\ io'.op = io.op /\ io'.key = io.key /\ io'.value = io.value) =>
          /\ Content(buckets', mem') = Content(buckets, mem)
          /\ buckets' = buckets
          /\ io.op = "insert" => KeyCount(buckets', mem', io.key) = 1
          /\ io.op = "delete" => mem' = mem /\ KeyCount(buckets', mem', io.key) = 0
          /\ io.op = "get" => io'.ret = io.ret /\ mem' = mem]_vars

\* C11 witness: insert has found, in the middle of a chain of three, the key
\* with the very value it was called with.
C11_Witness ==
    /\ io.op = "insert"
    /\ io.pos = 2
    /\ io.old = <<io.value>>
    /\ Len(Content(buckets, mem)[Index(build, io.key)]) = 3
    /\ KeyCount(buckets, mem, io.key) = 1

\* No node is met twice in the chains of the table, and no key or value block
\* belongs to two nodes.
SoleOwner(b, m) ==
    LET seq == ReachedFrom(b, m, 0)
    IN  \A i, j \in 1..Len(seq) : seq[i] = seq[j] => i = j

\* C12 as stated: no entry is reachable from two chains, and the caller never
\* holds a pointer from get to storage of the table that an insert, a delete
\* or free_table has released since.
C12_Ownership ==
    /\ ht = "live" => SoleOwner(buckets, mem)
    /\ ~result.freed

\* The blocks of the heap that are allocated.
Allocated(m) == {a \in Addrs : m[a].kind # "free"}

\* C13: free_table releases everything exactly once.  After any successful
\* inserts, updates and deletes, the blocks free_table frees (every node, key
\* and value of every chain) are allocated blocks, each freed once, and are
\* all the allocated blocks there are: values replaced by updates and entries
\* removed by delete were freed then (delete frees the three allocated blocks
\* of its match).  Afterwards the heap is empty and the table itself freed.
C13_FreeTableFreesAllOnce ==
    [][/\ io'.op = "free" =>
            LET seq == ReachedFrom(buckets, mem, 0)
            IN  /\ \A i \in 1..Len(seq) : mem[seq[i]].kind # "free"
                /\ \A i, j \in 1..Len(seq) : seq[i] = seq[j] => i = j
                /\ {seq[i] : i \in 1..Len(seq)} = Allocated(mem)
                /\ Len(seq) = 3 * EntryCount(buckets, mem)
                /\ mem' = EmptyHeap
                /\ ht' = "freed"
       /\ (io'.op = "delete" /\ io'.msg = "Deleted key") =>
            LET gone == DeleteFrees(buckets, mem, build, io'.key)
            IN  /\ Cardinality(gone) = 3
                /\ gone \subseteq Allocated(mem)
                /\ Cardinality(Allocated(mem')) = Cardinality(Allocated(mem)) - 3
       /\ (io'.op = "insert" /\ io'.old # <<>>) =>
            Cardinality(Allocated(mem')) = Cardinality(Allocated(mem))]_vars

\* C13 witness: free_table has freed a table of four entries, and the heap is
\* empty.
C13_Witness ==
    /\ io.op = "free"
    /\ ht = "freed"
    /\ Cardinality(hist.live) = 4
    /\ mem = EmptyHeap

\* C14: placement.  In every state of a live table, every entry in the chain
\* of slot i has a key that hash sends to i, and so get finds every stored
\* key where it looks (and delete, which looks in the same slot, would).
C14_Placement ==
    ht = "live" =>
        LET c == Content(buckets, mem)
        IN  \A i \in Slots : \A j \in 1..Len(c[i]) :
                /\ hash(build, c[i][j][1], TABLE_SIZE) = i
                /\ Lookup(buckets, mem, build, c[i][j][1]) = <<c[i][j][2]>>
                /\ DeleteResult(buckets, mem, build, c[i][j][1])[3] = "Deleted key"

\* C14 witness: a table with a chain of three in slot 2 and an entry in slot 0.
C14_Witness ==
    /\ ht = "live"
    /\ Len(Content(buckets, mem)[2]) = 3
    /\ Len(Content(buckets, mem)[0]) = 1
    /\ hash(build, Content(buckets, mem)[2][3][1], TABLE_SIZE) = 2

\* C15: prepend order and stability.  An insert of a key not yet present puts
\* the new entry at the head of the chain of its slot, in front of the chain
\* as it was; every insert or delete of key k leaves the entries of the other
\* keys as they were, in key, value and order, and the chains of the other
\* slots entirely.
C15_PrependAndStable ==
    [][io'.op \in {"insert", "delete"} =>
          LET before == Content(buckets, mem)
              after  == Content(buckets', mem')
              index  == Index(build, io'.key)
          IN  /\ (io'.op = "insert" /\ KeyCount(buckets, mem, io'.key) = 0) =>
                    after[index] = <<<<io'.key, io'.value>>>> \o before[index]
              /\ \A i \in Slots :
                    /\ Without(after[i], io'.key) = Without(before[i], io'.key)
                    /\ i # index => after[i] = before[i]]_vars

\* C15 witness: insert has put a new key at the head of a chain that held two
\* others, which follow it.
C15_Witness ==
    /\ io.op = "insert"
    /\ io.pos = 0
    /\ Len(Content(buckets, mem)[Index(build, io.key)]) = 3
    /\ Content(buckets, mem)[Index(build, io.key)][1] = <<io.key, io.value>>

\* C16: update in place.  An insert of a key already present, at the head, in
\* the middle or at the tail of its chain, creates no entry and changes the
\* value of that entry only: the slots, the nodes, their keys and links and
\* every other value are as before, and the entry holds the new value.
C16_UpdateInPlace ==
    [][(io'.op = "insert" /\ KeyCount(buckets, mem, io'.key) > 0) =>
          LET before == Content(buckets, mem)
              after  == Content(buckets', mem')
              index  == Index(build, io'.key)
              node   == Scan(mem, buckets[index], io'.key, MaxBlocks)
          IN  /\ EntryCount(buckets', mem') = EntryCount(buckets, mem)
              /\ PlacesOf(buckets', mem', io'.key) = PlacesOf(buckets, mem, io'.key)
              /\ buckets' = buckets
              /\ mem' = [mem EXCEPT ![mem[node].value].str = io'.value]
              /\ \A i \in Slots : \A j \in 1..Len(before[i]) :
                    after[i][j] = IF before[i][j][1] = io'.key
                                  THEN <<io'.key, io'.value>>
                                  ELSE before[i][j]]_vars

\* C16 witness: insert has replaced the value of the key at the tail of a
\* chain of three by another value.
C16_Witness ==
    /\ io.op = "insert"
    /\ io.pos = 3
    /\ io.old # <<>> /\ io.old # <<io.value>>
    /\ Content(buckets, mem)[Index(build, io.key)][3] = <<io.key, io.value>>

\* Following next from p reaches NULL: the walk meets nodes only, none of
\* them twice, and the last one's next is NULL.
ReachesNull(m, p) ==
    LET c == Chain(m, p, MaxBlocks)
    IN  /\ \A i \in 1..Len(c) : m[c[i]].kind = "node"
        /\ \A i, j \in 1..Len(c) : c[i] = c[j] => i = j
        /\ c # <<>> => m[c[Len(c)]].next = NULL

\* C17: termination.  In every state of a live table every chain is finite
\* and acyclic: following next from the head of any slot reaches NULL, so the
\* loops of insert, get, delete, print_table and free_table, which advance by
\* next until NULL or a match, end.
C17_ChainsReachNull ==
    ht = "live" => \A i \in Slots : ReachesNull(mem, buckets[i])

\* C17 witness: delete has removed the head of a chain of three; the two
\* nodes left still lead to NULL.
C17_Witness ==
    /\ ht = "live"
    /\ io.op = "delete" /\ io.pos = 1
    /\ Len(ChainOf(mem, buckets, Index(build, io.key))) = 2
    /\ ReachesNull(mem, buckets[Index(build, io.key)])

\* Every block the operations reach through the table is allocated: the
\* nodes of the chains are nodes, their keys and values are strings.
ReachesLiveStorage(b, m) ==
    \A i \in Slots : \A j \in 1..Len(ChainOf(m, b, i)) :
        LET n == ChainOf(m, b, i)[j]
        IN  /\ m[n].kind = "node"
            /\ m[n].key # NULL => m[m[n].key].kind = "str"
            /\ m[n].value # NULL => m[m[n].value].kind = "str"

\* C18 as stated: no call reads, writes or frees storage that has been freed:
\* the table never leads to a freed block, and no call has read a freed
\* block, also when insert is handed as value the pointer get returned for
\* the same key.
C18_NoUseAfterFree ==
    /\ ht = "live" => ReachesLiveStorage(buckets, mem)
    /\ ~io.stale

\* C19: at the shipped capacity the bucket is the last byte modulo 11.  With
\* a 64-bit unsigned long and table_size = TABLE_SIZE, for every key of one
\* to ten ASCII bytes hash returns (last byte) % 11; two such keys ending in
\* the same byte share a bucket.
C19_LastByteDecides ==
    (/\ hq.done
     /\ build.longBits = 64
     /\ hq.table_size = TABLE_SIZE
     /\ Len(hq.word) \in 1..10
     /\ \A i \in 1..Len(hq.word) : hq.word[i] < 128) =>
        /\ hq.ret = hq.word[Len(hq.word)] % TABLE_SIZE
        /\ \A w \in HashWords :
              (/\ Len(w) \in 1..10
               /\ \A i \in 1..Len(w) : w[i] < 128
               /\ w[Len(w)] = hq.word[Len(hq.word)]) =>
                  hash(build, w, TABLE_SIZE) = hq.ret

\* C19 witness: hash has been called with a key of ten ASCII bytes and
\* capacity 11 on a 64-bit build and has returned the last byte modulo 11.
C19_Witness ==
    /\ hq.done
    /\ build.longBits = 64
    /\ hq.table_size = TABLE_SIZE
    /\ hq.word = TenBytes
    /\ hq.ret = 127 % TABLE_SIZE

====
